---- MODULE Spec2Model ----
(***************************************************************************)
(* Asteroid collision engine of src/main.py: simulate_motion (the step     *)
(* driver with its per-tick thread pool) and check_collisions_in_cell (the *)
(* broad-phase evaluator run by the pool's workers).                       *)
(*                                                                         *)
(* Number representation.  The program computes in binary floating point.  *)
(* The model is exact on the following domain, on which the float results  *)
(* coincide with the exact ones:                                           *)
(*   - time_step and max_time are multiples of 1/16 s (dyadic, so          *)
(*     max_time / time_step and step * time_step are exact in floats);     *)
(*   - t = round(step * time_step, 1) is a number of tenths, kept as the   *)
(*     integer T with t = T / 10;                                          *)
(*   - x, y, r, vx, vy are integers, so a position x + vx * t is a number  *)
(*     of tenths, kept as the integer 10 * x + vx * T.                     *)
(***************************************************************************)
EXTENDS Integers, Sequences, FiniteSets, TLC

\* ---------------------------------------------------------------- bounds
MaxBodies == 3
MaxTime16 == 3

\* ------------------------------------------------------- program constants
GRID_CELL_SIZE == 50

\* positions and tick times are held in tenths (round(.., 1))
Scale == 10
\* time_step and max_time are held in sixteenths of a second
TimeDenom == 16

\* ------------------------------------------------------------- the inputs
\* <<x, y, r, vx, vy>> of a line of the input file
BodyChoices ==
  { <<45, 45, 5, 0, 0>>,
    <<55, 45, 5, -10, 0>>,
    <<-5, -5, 70, 0, 0>>,
    <<105, 45, 60, 0, 0>>,
    <<45, 51, 5, 0, -10>> }

TimeSteps == {1, 2}

MaxTimes == {0, MaxTime16}

\* the two id assignments: the line number, or explicit ids in falling order
IdOf(asc, n, i) == IF asc THEN i ELSE n + 1 - i

Stores ==
  UNION { { [i \in 1..n |-> <<IdOf(asc, n, i)>> \o f[i]] :
              f \in [1..n -> BodyChoices], asc \in BOOLEAN } :
          n \in 0..MaxBodies }

VARIABLES asteroids, time_step, max_time,
          grid, collisions, step, t, pc, idx, futures, result

vars == <<asteroids, time_step, max_time,
          grid, collisions, step, t, pc, idx, futures, result>>

\* ------------------------------------------------------------ arithmetic
\* x // cell_size, then int(): floor division (cell_size > 0)
FloorDiv(a, b) == a \div b

\* get_hash_cell(x, y, cell_size), x and y in tenths
get_hash_cell(x, y, cell_size) ==
  <<FloorDiv(x, Scale * cell_size), FloorDiv(y, Scale * cell_size)>>

\* time_steps = int(max_time / time_step)
time_steps == max_time \div time_step

\* round(step * time_step, 1) in tenths: round-half-even of
\* 10 * step * time_step / 16
RoundTick(s, ts) ==
  LET n == Scale * s * ts
      q == n \div TimeDenom
      r == n % TimeDenom
  IN  IF 2 * r < TimeDenom THEN q
      ELSE IF 2 * r > TimeDenom THEN q + 1
      ELSE IF q % 2 = 0 THEN q ELSE q + 1

\* new_x, new_y = x + vx * t, y + vy * t   (tenths)
NewX(a, tt) == Scale * a[2] + a[5] * tt
NewY(a, tt) == Scale * a[3] + a[6] * tt

\* math.sqrt((x2 - x1) ** 2 + (y2 - y1) ** 2) < r1 + r2, positions in tenths
DistLess(x1, y1, x2, y2, rsum) ==
  /\ rsum > 0
  /\ (x2 - x1) * (x2 - x1) + (y2 - y1) * (y2 - y1)
        < (Scale * rsum) * (Scale * rsum)

\* ------------------------------------------------- the defaultdict(list)
\* insertion-ordered keys and the list of each key
EmptyGrid == [order |-> <<>>, at |-> <<>>]

\* a tick that keeps the previous grid
GridClear_Keep(g) == g

\* grid.clear()
GridClear(g) == EmptyGrid

\* key in grid
InGrid(g, key) == key \in DOMAIN g.at

\* the grid after evaluating grid[key]: an absent key is allocated
GridTouch(g, key) ==
  IF InGrid(g, key) THEN g
  ELSE [order |-> Append(g.order, key), at |-> g.at @@ (key :> <<>>)]

\* the value of grid[key]
GridGet(g, key) == IF InGrid(g, key) THEN g.at[key] ELSE <<>>

\* grid[cell].append(snap)
GridAppend(g, key, snap) ==
  LET g1 == GridTouch(g, key)
  IN  [order |-> g1.order,
       at |-> [k \in DOMAIN g1.at |->
                 IF k = key THEN Append(g1.at[k], snap) ELSE g1.at[k]]]

\* (id_, new_x, new_y, r)
Snapshot(a, tt) == <<a[1], NewX(a, tt), NewY(a, tt), a[4]>>

\* ------------------------------------------- check_collisions_in_cell
\* neighbors: the cell itself, then its 8 surrounding cells
Neighbors(cell) ==
  << cell,
     <<cell[1] - 1, cell[2] - 1>>, <<cell[1], cell[2] - 1>>, <<cell[1] + 1, cell[2] - 1>>,
     <<cell[1] - 1, cell[2]>>, <<cell[1] + 1, cell[2]>>,
     <<cell[1] - 1, cell[2] + 1>>, <<cell[1], cell[2] + 1>>, <<cell[1] + 1, cell[2] + 1>> >>

\* a guard that lets a body meet itself
SkipPair_Greater(id1, id2) == id1 > id2

\* a guard that only skips a body meeting itself
SkipPair_SelfOnly(id1, id2) == id1 = id2

\* if id1 >= id2: continue
SkipPair(id1, id2) == id1 >= id2

\* a test that takes tangency for a collision
Collide_Tangent(a1, a2) ==
  /\ a1[4] + a2[4] > 0
  /\ (a2[2] - a1[2]) * (a2[2] - a1[2]) + (a2[3] - a1[3]) * (a2[3] - a1[3])
        <= (Scale * (a1[4] + a2[4])) * (Scale * (a1[4] + a2[4]))

\* if dist < r1 + r2
Collide(a1, a2) == DistLess(a1[2], a1[3], a2[2], a2[3], a1[4] + a2[4])

\* tuple(sorted((id1, id2)))
CollisionKey(id1, id2) == IF id1 <= id2 THEN <<id1, id2>> ELSE <<id2, id1>>

\* the body of the two inner loops for one (asteroid1, asteroid2);
\* st = [local |-> local_collisions, seen |-> seen_collisions]
VisitPair(a1, a2, tt, st) ==
  IF SkipPair(a1[1], a2[1]) THEN st
  ELSE IF ~Collide(a1, a2) THEN st
  ELSE IF CollisionKey(a1[1], a2[1]) \in st.seen THEN st
  ELSE [local |-> st.local \cup {<<tt, a1[1], a2[1]>>},
        seen  |-> st.seen \cup {CollisionKey(a1[1], a2[1])}]

\* for asteroid2 in grid[neighbor], from position j
RECURSIVE ScanInner(_, _, _, _, _)
ScanInner(a1, list2, j, tt, st) ==
  IF j > Len(list2) THEN st
  ELSE ScanInner(a1, list2, j + 1, tt, VisitPair(a1, list2[j], tt, st))

\* for asteroid1 in asteroids_in_cell, from position i
RECURSIVE ScanOuter(_, _, _, _, _)
ScanOuter(list1, i, list2, tt, st) ==
  IF i > Len(list1) THEN st
  ELSE ScanOuter(list1, i + 1, list2, tt, ScanInner(list1[i], list2, 1, tt, st))

\* a scan without the membership test
NeighborPresent_Always(g, neighbor) == TRUE

\* if neighbor not in grid: continue
NeighborPresent(g, neighbor) == InGrid(g, neighbor)

\* for neighbor in neighbors, from position k;
\* st = [local, seen, grid]: grid[neighbor] is evaluated once per asteroid1
RECURSIVE ScanNeighbors(_, _, _, _, _)
ScanNeighbors(nbs, k, list1, tt, st) ==
  IF k > Len(nbs) THEN st
  ELSE IF ~NeighborPresent(st.grid, nbs[k])
       THEN ScanNeighbors(nbs, k + 1, list1, tt, st)
       ELSE LET g1 == IF Len(list1) > 0 THEN GridTouch(st.grid, nbs[k]) ELSE st.grid
                s1 == ScanOuter(list1, 1, GridGet(st.grid, nbs[k]), tt,
                                [local |-> st.local, seen |-> st.seen])
            IN  ScanNeighbors(nbs, k + 1, list1, tt,
                              [local |-> s1.local, seen |-> s1.seen, grid |-> g1])

\* check_collisions_in_cell(cell, grid, t): the returned local_collisions
\* and the grid as the call leaves it (asteroids_in_cell = grid[cell] is a
\* defaultdict lookup)
check_collisions_in_cell(cell, g, tt) ==
  LET g0 == GridTouch(g, cell)
      r  == ScanNeighbors(Neighbors(cell), 1, GridGet(g, cell), tt,
                          [local |-> {}, seen |-> {}, grid |-> g0])
  IN  [local |-> r.local, grid |-> r.grid]

\* ------------------------------------------------------ sorted(collisions)
\* a comparison that ranks the ids before the time
TupleLess_IdsFirst(a, b) ==
  \/ a[2] < b[2]
  \/ a[2] = b[2] /\ a[3] < b[3]
  \/ a[2] = b[2] /\ a[3] = b[3] /\ a[1] < b[1]

\* tuple comparison of (time, id1, id2)
TupleLess(a, b) ==
  \/ a[1] < b[1]
  \/ a[1] = b[1] /\ a[2] < b[2]
  \/ a[1] = b[1] /\ a[2] = b[2] /\ a[3] < b[3]

RECURSIVE sorted(_)
sorted(S) ==
  IF S = {} THEN <<>>
  ELSE LET m == CHOOSE x \in S : \A y \in S : x = y \/ TupleLess(x, y)
       IN  <<m>> \o sorted(S \ {m})

\* ------------------------------------------------------------------ Init
Init ==
  /\ asteroids \in Stores
  /\ time_step \in TimeSteps
  /\ max_time \in MaxTimes
  /\ grid = EmptyGrid
  /\ collisions = {}
  /\ step = 0
  /\ t = 0
  /\ pc = "loop"
  /\ idx = 1
  /\ futures = <<>>
  /\ result = <<>>

\* --------------------------------------------------- simulate_motion
\* for step in range(time_steps + 1): t = round(..); grid.clear()
TickBegin ==
  /\ pc = "loop"
  /\ step <= time_steps
  /\ t' = RoundTick(step, time_step)
  /\ grid' = GridClear(grid)
  /\ idx' = 1
  /\ pc' = "fill"
  /\ UNCHANGED <<asteroids, time_step, max_time, collisions, step, futures, result>>

\* for asteroid in asteroids: grid[cell].append((id_, new_x, new_y, r))
AddBody ==
  /\ pc = "fill"
  /\ idx <= Len(asteroids)
  /\ LET a    == asteroids[idx]
         cell == get_hash_cell(NewX(a, t), NewY(a, t), GRID_CELL_SIZE)
     IN  grid' = GridAppend(grid, cell, Snapshot(a, t))
  /\ idx' = idx + 1
  /\ UNCHANGED <<asteroids, time_step, max_time, collisions, step, t, pc, futures, result>>

\* the fill loop ends; with ThreadPoolExecutor() as executor: future_to_cell = {
FanOutBegin ==
  /\ pc = "fill"
  /\ idx > Len(asteroids)
  /\ futures' = <<>>
  /\ idx' = 1
  /\ pc' = "submit"
  /\ UNCHANGED <<asteroids, time_step, max_time, grid, collisions, step, t, result>>

\* executor.submit(check_collisions_in_cell, cell, grid, t) for cell in grid
Submit ==
  /\ pc = "submit"
  /\ idx <= Len(grid.order)
  /\ futures' = Append(futures,
                       [cell |-> grid.order[idx], t |-> t, state |-> "pending", local |-> {}])
  /\ idx' = idx + 1
  /\ UNCHANGED <<asteroids, time_step, max_time, grid, collisions, step, t, pc, result>>

\* the comprehension ends; for future in future_to_cell:
SubmitEnd ==
  /\ pc = "submit"
  /\ idx > Len(grid.order)
  /\ idx' = 1
  /\ pc' = "merge"
  /\ UNCHANGED <<asteroids, time_step, max_time, grid, collisions, step, t, futures, result>>

\* a pool thread runs check_collisions_in_cell(cell, grid, t) of future k:
\* cell and t are the submitted arguments, grid is the shared dictionary
RunWorker(k) ==
  /\ futures[k].state = "pending"
  /\ LET r == check_collisions_in_cell(futures[k].cell, grid, futures[k].t)
     IN  /\ grid' = r.grid
         /\ futures' = [futures EXCEPT ![k] = [@ EXCEPT !.state = "done", !.local = r.local]]
  /\ UNCHANGED <<asteroids, time_step, max_time, collisions, step, t, pc, idx, result>>

\* a result read that does not wait for the worker
ResultReady_NoWait(f) == TRUE

\* future.result() returns once the future is done
ResultReady(f) == f.state = "done"

\* collisions.update(future.result())
Merge ==
  /\ pc = "merge"
  /\ idx <= Len(futures)
  /\ ResultReady(futures[idx])
  /\ collisions' = collisions \cup futures[idx].local
  /\ idx' = idx + 1
  /\ UNCHANGED <<asteroids, time_step, max_time, grid, step, t, pc, futures, result>>

\* the merge loop ends and the with block exits: shutdown(wait=True)
PoolExit ==
  /\ pc = "merge"
  /\ idx > Len(futures)
  /\ \A k \in 1..Len(futures) : futures[k].state = "done"
  /\ step' = step + 1
  /\ idx' = 1
  /\ pc' = "loop"
  /\ UNCHANGED <<asteroids, time_step, max_time, grid, collisions, t, futures, result>>

\* return sorted(collisions)
Return ==
  /\ pc = "loop"
  /\ step > time_steps
  /\ result' = sorted(collisions)
  /\ pc' = "done"
  /\ UNCHANGED <<asteroids, time_step, max_time, grid, collisions, step, t, idx, futures>>

Next ==
  \/ TickBegin
  \/ AddBody
  \/ FanOutBegin
  \/ Submit
  \/ SubmitEnd
  \/ \E k \in 1..Len(futures) : RunWorker(k)
  \/ Merge
  \/ PoolExit
  \/ Return

Spec == Init /\ [][Next]_vars

\* ======================================================== the properties
\* store positions, tick indices and the tick time of an index
Bodies == 1..Len(asteroids)
Ticks == 0..time_steps
TickTime(i) == RoundTick(i, time_step)
TickTimes == {TickTime(i) : i \in Ticks}
Events == collisions \cup {result[k] : k \in 1..Len(result)}

\* squared distance (tenths) of store entries p and q at time tt, and the
\* square of their radius sum
Dist2(p, q, tt) ==
  LET dx == NewX(asteroids[q], tt) - NewX(asteroids[p], tt)
      dy == NewY(asteroids[q], tt) - NewY(asteroids[p], tt)
  IN  dx * dx + dy * dy
RSum2(p, q) ==
  LET rs == Scale * (asteroids[p][4] + asteroids[q][4]) IN rs * rs
Within(p, q, tt) == Dist2(p, q, tt) < RSum2(p, q)
Tangent(p, q, tt) == Dist2(p, q, tt) = RSum2(p, q)

CellAt(p, tt) ==
  get_hash_cell(NewX(asteroids[p], tt), NewY(asteroids[p], tt), GRID_CELL_SIZE)
Abs(n) == IF n < 0 THEN -n ELSE n
AdjacentCells(c, d) == Abs(c[1] - d[1]) <= 1 /\ Abs(c[2] - d[2]) <= 1

\* the event of store entries p and q at time tt, low id first
EventOf(p, q, tt) ==
  IF asteroids[p][1] < asteroids[q][1]
  THEN <<tt, asteroids[p][1], asteroids[q][1]>>
  ELSE <<tt, asteroids[q][1], asteroids[p][1]>>

\* p and q collide at tt and at least one cell/neighbour pairing reaches them
Discovered(p, q, tt) ==
  /\ p # q
  /\ Within(p, q, tt)
  /\ AdjacentCells(CellAt(p, tt), CellAt(q, tt))

\* all workers of the current tick are merged
TickMerged == pc = "merge" /\ idx > Len(futures)

\* C1: at every tick the pairs reported by the grid evaluator are exactly
\* the pairs of an all-pairs distance check over the same positions, also
\* for bodies in cells that are not adjacent.
C1_GridEqualsBruteForce ==
  TickMerged =>
    {e \in collisions : e[1] = t}
      = {EventOf(p, q, t) : <<p, q>> \in {pq \in Bodies \X Bodies :
                                             pq[1] < pq[2] /\ Within(pq[1], pq[2], t)}}

\* C2: every event is a real collision: the two bodies' positions at the
\* event's time are strictly closer than the sum of their radii.
C2_EventsAreRealCollisions ==
  \A e \in Events :
    \E p, q \in Bodies :
      /\ p # q
      /\ asteroids[p][1] = e[2]
      /\ asteroids[q][1] = e[3]
      /\ Within(p, q, e[1])

\* a pair tangent at tick 0 and colliding at time 0.1: reported at 0.1 only
C2_Witness ==
  /\ pc = "done"
  /\ \E p, q \in Bodies :
       /\ p # q
       /\ Tangent(p, q, 0)
       /\ EventOf(p, q, 1) \in Events
       /\ EventOf(p, q, 0) \notin Events

\* the number of entries of the result for the unordered pair p, q at tt
PairCount(p, q, tt) ==
  Cardinality({k \in 1..Len(result) :
                 /\ result[k][1] = tt
                 /\ {result[k][2], result[k][3]} = {asteroids[p][1], asteroids[q][1]}})

\* three bodies in one cell, mutually overlapping, at tt
PackedTriple(tt) ==
  /\ Len(asteroids) = 3
  /\ CellAt(1, tt) = CellAt(2, tt) /\ CellAt(2, tt) = CellAt(3, tt)
  /\ Within(1, 2, tt) /\ Within(1, 3, tt) /\ Within(2, 3, tt)

C4_DistinctTicksDistinctEvents ==
  pc = "done" =>
    \A i, j \in Ticks : \A p, q \in Bodies :
      (i # j /\ Discovered(p, q, TickTime(i)) /\ Discovered(p, q, TickTime(j))) =>
        \E k1, k2 \in 1..Len(result) :
          /\ k1 # k2
          /\ result[k1] = EventOf(p, q, TickTime(i))
          /\ result[k2] = EventOf(p, q, TickTime(j))

\* C5: every event has idLow < idHigh; no body collides with itself.
C5_LowIdFirst == \A e \in Events : e[2] < e[3]

C5_Witness == pc = "done" /\ Len(result) >= 3

\* C6: the returned sequence is strictly ascending by (time, idLow, idHigh)
\* and holds exactly the collected events.
C6_ResultSorted ==
  pc = "done" =>
    /\ \A i, j \in 1..Len(result) :
         i < j =>
           \/ result[i][1] < result[j][1]
           \/ result[i][1] = result[j][1] /\ result[i][2] < result[j][2]
           \/ /\ result[i][1] = result[j][1]
              /\ result[i][2] = result[j][2]
              /\ result[i][3] < result[j][3]
    /\ {result[k] : k \in 1..Len(result)} = collisions

\* time decides the order against the ids
C6_Witness ==
  /\ pc = "done"
  /\ \E i, j \in 1..Len(result) :
       i < j /\ result[i][1] < result[j][1] /\ result[i][2] > result[j][2]

\* the grid of time tt, built as the fill loop builds it
RECURSIVE BuildGrid(_, _)
BuildGrid(n, tt) ==
  IF n = 0 THEN EmptyGrid
  ELSE GridAppend(BuildGrid(n - 1, tt), CellAt(n, tt), Snapshot(asteroids[n], tt))

\* the events of a run that evaluates every cell of every tick in isolation
ScheduleFreeEvents ==
  UNION { UNION { check_collisions_in_cell(c, BuildGrid(Len(asteroids), TickTime(i)),
                                           TickTime(i)).local :
                    c \in DOMAIN BuildGrid(Len(asteroids), TickTime(i)).at } :
          i \in Ticks }

\* C7: the returned list is a function of the body store, timeStep and
\* maxTime alone: every interleaving of the workers ends with the same list,
\* so any two runs on the same input agree.
C7_Deterministic == pc = "done" => result = sorted(ScheduleFreeEvents)

\* a run whose last tick had several workers with results
C7_Witness ==
  /\ pc = "done"
  /\ Len(futures) >= 2
  /\ \E j, k \in 1..Len(futures) :
       j # k /\ futures[j].local # {} /\ futures[k].local # {}

\* every snapshot in g is a body's snapshot of time tt, one per body
GridHoldsTick(g, tt) ==
  /\ \A c \in DOMAIN g.at : \A k \in 1..Len(g.at[c]) :
       \E p \in Bodies : g.at[c][k] = Snapshot(asteroids[p], tt)
  /\ \A p \in Bodies :
       \E c \in DOMAIN g.at : \E k \in 1..Len(g.at[c]) :
         g.at[c][k] = Snapshot(asteroids[p], tt)

\* C8: the grid changes only when every worker of the previous fan-out is
\* done and merged, and a worker runs only on the complete grid of the tick
\* it was submitted for.
C8_JoinBarrier ==
  [][ /\ grid' # grid =>
           \A k \in 1..Len(futures) :
             futures[k].state = "done" /\ futures[k].local \subseteq collisions
      /\ \A k \in 1..Len(futures) :
           (/\ futures[k].state = "pending"
            /\ Len(futures') >= k
            /\ futures'[k].state = "done") =>
             /\ futures[k].t = t
             /\ pc \in {"submit", "merge"}
             /\ GridHoldsTick(grid, futures[k].t) ]_vars

\* the grid of a later tick is being rebuilt after workers with results
C8_Witness ==
  /\ pc = "fill"
  /\ step >= 1
  /\ idx > 1
  /\ Len(futures) >= 2
  /\ \E k \in 1..Len(futures) : futures[k].local # {}

\* C9: a step of a worker (a future turning done) leaves the grid and the
\* global set as they are and changes only that future; the global set
\* changes only in the driver's merge.
C9_WorkersWriteNoSharedState ==
  [][ /\ \A k \in 1..Len(futures) :
           (/\ futures[k].state = "pending"
            /\ Len(futures') >= k
            /\ futures'[k].state = "done") =>
             /\ grid' = grid
             /\ collisions' = collisions
             /\ Len(futures') = Len(futures)
             /\ \A j \in 1..Len(futures) : j # k => futures'[j] = futures[j]
      /\ collisions' # collisions =>
           pc = "merge" /\ futures' = futures /\ grid' = grid ]_vars

\* a worker has run next to absent neighbour cells while another is pending
C9_Witness ==
  /\ \E j, k \in 1..Len(futures) :
       /\ futures[j].state = "done"
       /\ futures[k].state = "pending"
       /\ futures[j].local # {}
       /\ \E n \in 1..9 : ~InGrid(grid, Neighbors(futures[j].cell)[n])

\* C10: when the fan-out of a tick begins, every body is in exactly one
\* cell, once, in the cell of its floor-divided position at that tick, and
\* the grid holds nothing else.
C10_GridIsPartition ==
  (pc = "submit" /\ idx = 1) =>
    LET Slots == {ck \in (DOMAIN grid.at) \X (1..Len(asteroids)) :
                    ck[2] <= Len(grid.at[ck[1]])}
        W == Scale * GRID_CELL_SIZE
    IN  /\ Cardinality(Slots) = Len(asteroids)
        /\ \A c \in DOMAIN grid.at : Len(grid.at[c]) \in 1..Len(asteroids)
        /\ {grid.order[k] : k \in 1..Len(grid.order)} = DOMAIN grid.at
        /\ \A p \in Bodies :
             \E ck \in Slots :
               /\ grid.at[ck[1]][ck[2]] =
                    <<asteroids[p][1], NewX(asteroids[p], t), NewY(asteroids[p], t),
                      asteroids[p][4]>>
               /\ ck[1][1] * W <= NewX(asteroids[p], t)
               /\ NewX(asteroids[p], t) < (ck[1][1] + 1) * W
               /\ ck[1][2] * W <= NewY(asteroids[p], t)
               /\ NewY(asteroids[p], t) < (ck[1][2] + 1) * W

\* a later tick, a body at negative coordinates and a body that changed cell
C10_Witness ==
  /\ pc = "submit" /\ idx = 1
  /\ step >= 1
  /\ \E p \in Bodies : NewX(asteroids[p], t) < 0 /\ NewY(asteroids[p], t) < 0
  /\ \E p \in Bodies : CellAt(p, t) # CellAt(p, 0)

====
